---- MODULE Spec2Model ----
(***************************************************************************)
(* Model of the two operational scripts of the arbitrage bot deployment:   *)
(*   scripts/monitor_profit.py  - the balance monitor                      *)
(*   scripts/restart_bot.py     - the tmux restart loop                    *)
(* The scripts share nothing at run time; each has its own specification   *)
(* (SpecMonitor, SpecRestart, LiveSpecRestart) over its own variables.     *)
(***************************************************************************)
EXTENDS Integers, Sequences, FiniteSets, TLC

VARIABLES
    mpc,                      \* monitor: "start" | "loop" | "crashed"
    profit_address_balance,   \* monitor: the module global of the same name
    tick,                     \* monitor: what the last monitor_profit call did
    rpc,                      \* restarter: "loop" | "sleep" | "exited"
    calls,                    \* restarter: number of restart_bot calls so far
    session,                  \* restarter: the tmux session `mev-arb-bot`
    last,                     \* restarter: what the last restart_bot call did
    sleepFor,                 \* restarter: argument of the pending time.sleep
    interrupted               \* restarter: a KeyboardInterrupt was delivered

monitorVars == <<mpc, profit_address_balance, tick>>
restartVars == <<rpc, calls, session, last, sleepFor, interrupted>>
vars == <<mpc, profit_address_balance, tick,
          rpc, calls, session, last, sleepFor, interrupted>>

(***************************************************************************)
(* Bounds of the model.                                                    *)
(***************************************************************************)
MaxBalanceUnits == 3
MaxCalls == 3

(***************************************************************************)
(* monitor_profit.py                                                       *)
(***************************************************************************)
BALANCE_DIFF_THRESHOLD == 500000000

\* Balances the RPC node may report: multiples of half the threshold and
\* their predecessors, so that differences fall on both sides of the
\* threshold and exactly on it.
Unit == BALANCE_DIFF_THRESHOLD \div 2
Balances == {k * Unit : k \in 0..MaxBalanceUnits}
              \cup {k * Unit - 1 : k \in 1..MaxBalanceUnits}

\* str(n) for a non-negative integer: the decimal digits, most significant
\* first. This is the form of "totalBalance" in the RPC reply.
RECURSIVE ToStr(_)
ToStr(n) == IF n < 10 THEN <<n>> ELSE Append(ToStr(n \div 10), n % 10)

\* int(s) for a string of decimal digits.
RECURSIVE ParseInt(_)
ParseInt(s) ==
    IF Len(s) = 0 THEN 0
    ELSE 10 * ParseInt(SubSeq(s, 1, Len(s) - 1)) + s[Len(s)]

ZeroStr == <<0>>
NoStr == <<>>

\* What requests.post can produce. net = "exception": no response at all
\* (connection error, timeout). Otherwise an HTTP status and a body.
BodyKinds == {"not_json", "rpc_error", "no_result", "result_null",
              "result_no_field", "result_ok"}

Resp(net, status, body, total) ==
    [net |-> net, status |-> status, body |-> body, total |-> total]

NoResp == Resp("none", 0, "none", NoStr)

FailedHttp == {Resp("exception", 0, "none", NoStr),
               Resp("ok", 500, "none", NoStr),
               Resp("ok", 204, "none", NoStr)}

BalanceResponses ==
    FailedHttp
    \cup {Resp("ok", 200, b, NoStr) : b \in BodyKinds \ {"result_ok"}}
    \cup {Resp("ok", 200, "result_ok", ToStr(b)) : b \in Balances}

\* For get_tx, "result_ok" is a result whose data list holds one digest and
\* "result_empty" one whose data list is empty.
TxResponses ==
    FailedHttp
    \cup {Resp("ok", 200, b, NoStr) :
            b \in (BodyKinds \cup {"result_empty"})}

TgResponses ==
    FailedHttp
    \cup {Resp("ok", 200, b, NoStr) : b \in {"not_json", "result_ok"}}

\* response.raise_for_status(): raises HTTPError for 4xx and 5xx.
RaiseForStatus(resp) == resp.status >= 400 /\ resp.status < 600

Outcome(raised, ret, logged) ==
    [raised |-> raised, ret |-> ret, logged |-> logged]

\* get_current_balance: the returned string, whether a message was printed,
\* and whether an exception left the function.
get_current_balance(resp) ==
    IF resp.net = "exception" THEN Outcome(FALSE, ZeroStr, TRUE)
    ELSE IF RaiseForStatus(resp) THEN Outcome(FALSE, ZeroStr, TRUE)
    ELSE IF resp.status = 200 THEN
        IF resp.body = "not_json" THEN Outcome(TRUE, NoStr, FALSE)
        ELSE IF resp.body = "rpc_error" THEN Outcome(FALSE, ZeroStr, TRUE)
        ELSE IF resp.body = "no_result" THEN Outcome(FALSE, ZeroStr, TRUE)
        ELSE IF resp.body = "result_null" THEN Outcome(TRUE, NoStr, FALSE)
        ELSE IF resp.body = "result_ok" THEN Outcome(FALSE, resp.total, FALSE)
        ELSE Outcome(FALSE, ZeroStr, TRUE)
    ELSE Outcome(FALSE, ZeroStr, TRUE)

None == "None"
TxUrl == "https://suivision.xyz/txblock/digest"

\* get_tx: the link to the latest transaction, or None.
get_tx(resp) ==
    IF resp.net = "exception" THEN Outcome(FALSE, None, TRUE)
    ELSE IF RaiseForStatus(resp) THEN Outcome(FALSE, None, TRUE)
    ELSE IF resp.status = 200 THEN
        IF resp.body = "not_json" THEN Outcome(TRUE, None, FALSE)
        ELSE IF resp.body = "rpc_error" THEN Outcome(FALSE, None, TRUE)
        ELSE IF resp.body = "no_result" THEN Outcome(FALSE, None, TRUE)
        ELSE IF resp.body \in {"result_null", "result_no_field"}
            THEN Outcome(TRUE, None, FALSE)
        ELSE IF resp.body = "result_ok" THEN Outcome(FALSE, TxUrl, FALSE)
        ELSE Outcome(FALSE, None, TRUE)
    ELSE Outcome(FALSE, None, TRUE)

\* send_telegram_message: every failure is caught inside the function.
send_telegram_message(resp) ==
    IF resp.net = "exception" THEN Outcome(FALSE, "not_ok", TRUE)
    ELSE IF RaiseForStatus(resp) THEN Outcome(FALSE, "not_ok", TRUE)
    ELSE IF resp.body # "result_ok" THEN Outcome(FALSE, "not_ok", TRUE)
    ELSE Outcome(FALSE, "json", FALSE)

\* Variant: the "0" check is missing and every tick goes on to the
\* comparison.
SkipTickNever(balStr) == FALSE

\* Line 91 of monitor_profit: the tick is skipped when the balance string
\* is "0".
SkipTick(balStr) == balStr = ZeroStr

\* Variant: the recorded balance is not required to be nonzero.
ProfitDetectedNoBaseline(prev, cur) ==
    cur - prev >= BALANCE_DIFF_THRESHOLD

\* Line 106 of monitor_profit: the condition under which a profit is
\* reported.
ProfitDetected(prev, cur) ==
    prev # 0 /\ cur - prev >= BALANCE_DIFF_THRESHOLD

\* Line 116 of monitor_profit: the message is built and sent only for a
\* truthy transaction link.
ShouldNotify(txRet) == txRet # None

TickRec(prev, br, b, queried, tr, t, sends, gr, g, raised, bal) ==
    [kind |-> "tick", prev |-> prev,
     balResp |-> br, balRet |-> b.ret, balLogged |-> b.logged,
     txQueried |-> queried, txResp |-> tr, txRet |-> t.ret,
     txLogged |-> t.logged,
     tgCalls |-> sends, tgResp |-> gr, tgLogged |-> g.logged,
     raised |-> raised, balance |-> bal]

NoOutcome == Outcome(FALSE, None, FALSE)

NoTick == [kind |-> "none", prev |-> 0,
           balResp |-> NoResp, balRet |-> NoStr, balLogged |-> FALSE,
           txQueried |-> FALSE, txResp |-> NoResp, txRet |-> None,
           txLogged |-> FALSE,
           tgCalls |-> 0, tgResp |-> NoResp, tgLogged |-> FALSE,
           raised |-> FALSE, balance |-> 0]

\* One call of monitor_profit with recorded balance prev, given the replies
\* of the balance query, the transaction query and the Telegram send. The
\* field balance is the value of profit_address_balance after the call.
monitor_profit(prev, br, tr, gr) ==
    LET b == get_current_balance(br) IN
    IF b.raised
    THEN TickRec(prev, br, b, FALSE, NoResp, NoOutcome, 0, NoResp,
                 NoOutcome, TRUE, prev)
    ELSE IF SkipTick(b.ret)
    THEN TickRec(prev, br, b, FALSE, NoResp, NoOutcome, 0, NoResp,
                 NoOutcome, FALSE, prev)
    ELSE
      LET cur == ParseInt(b.ret) IN
      IF ProfitDetected(prev, cur)
      THEN
        LET t == get_tx(tr) IN
        IF t.raised
        THEN TickRec(prev, br, b, TRUE, tr, t, 0, NoResp, NoOutcome,
                     TRUE, prev)
        ELSE IF ShouldNotify(t.ret)
        THEN TickRec(prev, br, b, TRUE, tr, t, 1, gr,
                     send_telegram_message(gr), FALSE, cur)
        ELSE TickRec(prev, br, b, TRUE, tr, t, 0, NoResp, NoOutcome,
                     FALSE, cur)
      ELSE TickRec(prev, br, b, FALSE, NoResp, NoOutcome, 0, NoResp,
                   NoOutcome, FALSE, cur)

\* The start-up code of the script: the first balance query sets the
\* baseline unless it yields "0".
Startup ==
    /\ mpc = "start"
    /\ \E br \in BalanceResponses :
         LET b == get_current_balance(br) IN
         IF b.raised
         THEN /\ mpc' = "crashed"
              /\ UNCHANGED profit_address_balance
         ELSE /\ mpc' = "loop"
              /\ profit_address_balance' =
                    IF b.ret # ZeroStr THEN ParseInt(b.ret) ELSE 0
    /\ UNCHANGED <<tick, restartVars>>

\* One iteration of the polling loop: monitor_profit, then time.sleep(1).
\* An exception leaving monitor_profit is not caught and ends the script.
MonitorTick ==
    /\ mpc = "loop"
    /\ \E br \in BalanceResponses, tr \in TxResponses, gr \in TgResponses :
         LET r == monitor_profit(profit_address_balance, br, tr, gr) IN
         /\ tick' = r
         /\ profit_address_balance' = r.balance
         /\ mpc' = IF r.raised THEN "crashed" ELSE "loop"
    /\ UNCHANGED restartVars

MonitorInit ==
    /\ mpc = "start"
    /\ profit_address_balance = 0
    /\ tick = NoTick

NextMonitor == Startup \/ MonitorTick

(***************************************************************************)
(* restart_bot.py                                                          *)
(***************************************************************************)
\* interval of main: 3 hours in seconds.
interval == 3 * 60 * 60
\* The argument of time.sleep in main's `except Exception` branch.
retry_delay == 60

\* What the environment does to one tmux invocation: the command runs
\* ("normal"), tmux exits non-zero for a reason of its own ("fault"),
\* subprocess.run cannot start it ("oserror"), or the user presses Ctrl+C
\* while it runs ("interrupt").
Envs == {"normal", "fault", "oserror", "interrupt"}

NoSession == [exists |-> FALSE, createdBy |-> 0, started |-> FALSE]

\* tmux kill-session -t mev-arb-bot: exit status and the session afterwards.
KillSession(sess, env) ==
    IF env = "normal" /\ sess.exists
    THEN [rc |-> 0, session |-> NoSession]
    ELSE [rc |-> 1, session |-> sess]

\* tmux new-session -d -s mev-arb-bot: fails on a duplicate session name.
NewSession(sess, env, callNo) ==
    IF env = "normal" /\ ~sess.exists
    THEN [rc |-> 0,
          session |-> [exists |-> TRUE, createdBy |-> callNo,
                       started |-> FALSE]]
    ELSE [rc |-> 1, session |-> sess]

\* tmux send-keys -t mev-arb-bot cmd Enter: fails without a target session.
SendKeys(sess, env) ==
    IF env = "normal" /\ sess.exists
    THEN [rc |-> 0, session |-> [sess EXCEPT !.started = TRUE]]
    ELSE [rc |-> 1, session |-> sess]

\* Variant: check=True is missing and a non-zero exit status goes unnoticed.
RunUnchecked(rc) == FALSE

\* subprocess.run(..., check=True) raises CalledProcessError on a non-zero
\* exit status (new-session and send-keys).
RunChecked(rc) == rc # 0

\* Python's class hierarchy: what `except Exception` catches.
IsException(exc) == exc \in {"CalledProcessError", "OSError"}

\* Variant: a failed tmux command is re-raised to the caller.
RestartBotExceptReraise(exc) ==
    IF exc = "CalledProcessError" THEN exc
    ELSE IF IsException(exc) THEN "none"
    ELSE exc

\* Variant: a failed tmux command ends the script (sys.exit in the handler).
RestartBotExceptExit(exc) ==
    IF exc = "CalledProcessError" THEN "SystemExit"
    ELSE IF IsException(exc) THEN "none"
    ELSE exc

\* The except clauses of restart_bot: the exception that leaves the
\* function ("none" when it was caught and logged).
RestartBotExcept(exc) ==
    IF exc = "CalledProcessError" THEN "none"
    ELSE IF IsException(exc) THEN "none"
    ELSE exc

\* The exception subprocess.run raises before the command has run.
EnvRaises(env) ==
    IF env = "oserror" THEN "OSError"
    ELSE IF env = "interrupt" THEN "KeyboardInterrupt"
    ELSE "none"

\* One subprocess.run invocation: the tmux command, its exit status (-1
\* when it did not run) and the exception subprocess.run raised itself.
Cmd(name, rc, exc) == [name |-> name, rc |-> rc, exc |-> exc]

Attempt(name, env) == Cmd(name, -1, EnvRaises(env))

CallRec(sess, cmds, exc) ==
    [session |-> sess, cmds |-> cmds, exc |-> exc,
     escaped |-> RestartBotExcept(exc),
     errorLogged |-> (exc # "none" /\ RestartBotExcept(exc) = "none")]

\* Variant: the start command is never sent.
StartBotOmitted(sess, c2, es) ==
    [session |-> sess, cmds |-> c2, exc |-> "none", escaped |-> "none",
     errorLogged |-> FALSE]

\* Step 3 of restart_bot: the start command is sent to the session.
StartBot(sess, c2, es) ==
    IF EnvRaises(es) # "none"
    THEN CallRec(sess, Append(c2, Attempt("send-keys", es)), EnvRaises(es))
    ELSE
      LET s == SendKeys(sess, es)
          c3 == Append(c2, Cmd("send-keys", s.rc, "none"))
      IN
      IF RunChecked(s.rc)
      THEN CallRec(s.session, c3, "CalledProcessError")
      ELSE CallRec(s.session, c3, "none")

\* One call of restart_bot, the callNo-th, on tmux session sess; ek, en and
\* es are what the environment does to the three tmux invocations. cmds
\* lists the invocations made, exc is the exception raised in the try block
\* and escaped the one that left the function.
restart_bot(sess, callNo, ek, en, es) ==
    IF EnvRaises(ek) # "none"
    THEN CallRec(sess, <<Attempt("kill-session", ek)>>, EnvRaises(ek))
    ELSE
      LET k == KillSession(sess, ek)
          c1 == <<Cmd("kill-session", k.rc, "none")>>
      IN
      IF EnvRaises(en) # "none"
      THEN CallRec(k.session, Append(c1, Attempt("new-session", en)),
                   EnvRaises(en))
      ELSE
        LET n == NewSession(k.session, en, callNo)
            c2 == Append(c1, Cmd("new-session", n.rc, "none"))
        IN
        IF RunChecked(n.rc)
        THEN CallRec(n.session, c2, "CalledProcessError")
        ELSE StartBot(n.session, c2, es)

\* A tmux command of the call failed: it exited non-zero or could not be
\* started.
TmuxFailed(cmds) ==
    \E i \in 1..Len(cmds) :
        \/ cmds[i].exc = "none" /\ cmds[i].rc # 0
        \/ cmds[i].exc = "OSError"

NoCall == [cmds |-> <<>>, exc |-> "none", escaped |-> "none",
           errorLogged |-> FALSE, prevFailed |-> FALSE]

\* The except clauses of main: what the loop does with an exception raised
\* in its try block.
MainExcept(exc) ==
    IF exc = "none" THEN "sleep_interval"
    ELSE IF exc = "KeyboardInterrupt" THEN "break"
    ELSE IF IsException(exc) THEN "sleep_retry"
    ELSE "propagate"

\* The loop of main, from its head to the time.sleep it blocks in (or to
\* the end of the script).
MainCall ==
    /\ rpc = "loop"
    /\ calls < MaxCalls
    /\ \E ek \in Envs, en \in Envs, es \in Envs :
         LET r == restart_bot(session, calls + 1, ek, en, es)
             h == MainExcept(r.escaped)
         IN
         /\ calls' = calls + 1
         /\ session' = r.session
         /\ last' = [cmds |-> r.cmds, exc |-> r.exc, escaped |-> r.escaped,
                     errorLogged |-> r.errorLogged,
                     prevFailed |-> TmuxFailed(last.cmds)]
         /\ interrupted' = (interrupted \/ r.exc = "KeyboardInterrupt")
         /\ rpc' = IF h \in {"break", "propagate"} THEN "exited" ELSE "sleep"
         /\ sleepFor' = IF h = "sleep_interval" THEN interval
                        ELSE IF h = "sleep_retry" THEN retry_delay
                        ELSE 0
    /\ UNCHANGED monitorVars

\* time.sleep returns and the loop starts over (`while True`).
MainWake ==
    /\ rpc = "sleep"
    /\ rpc' = "loop"
    /\ sleepFor' = 0
    /\ UNCHANGED <<calls, session, last, interrupted, monitorVars>>

\* Ctrl+C during time.sleep: `except KeyboardInterrupt: break` for the
\* sleep in the try block; out of the except branch it ends the script too.
MainInterrupt ==
    /\ rpc = "sleep"
    /\ rpc' = "exited"
    /\ interrupted' = TRUE
    /\ sleepFor' = 0
    /\ UNCHANGED <<calls, session, last, monitorVars>>

\* A session left over from an earlier run of the script may exist.
RestartInit ==
    /\ rpc = "loop"
    /\ calls = 0
    /\ session \in {NoSession,
                    [exists |-> TRUE, createdBy |-> 0, started |-> TRUE]}
    /\ last = NoCall
    /\ sleepFor = 0
    /\ interrupted = FALSE

NextRestart == MainCall \/ MainWake \/ MainInterrupt

Init == MonitorInit /\ RestartInit

Next == NextMonitor \/ NextRestart

\* The two scripts side by side.
Spec == Init /\ [][Next]_vars

\* The balance monitor alone.
SpecMonitor == Init /\ [][NextMonitor]_vars

\* The restart loop alone.
SpecRestart == Init /\ [][NextRestart]_vars

\* The interpreter keeps running the script: a pending restart_bot call is
\* made and a pending time.sleep returns. Ctrl+C is the user's choice.
LiveSpecRestart ==
    SpecRestart /\ WF_vars(MainCall) /\ WF_vars(MainWake)

(***************************************************************************)
(* Properties of the balance monitor.                                      *)
(***************************************************************************)
\* The balance query of the last tick was answered with a balance.
Fetched == /\ tick.kind = "tick"
           /\ tick.balResp.net = "ok"
           /\ tick.balResp.status = 200
           /\ tick.balResp.body = "result_ok"
FetchedBalance == ParseInt(tick.balResp.total)

\* The last tick saw the balance rise by at least the threshold over a
\* nonzero recorded balance.
ProfitTick == /\ Fetched
              /\ tick.prev # 0
              /\ FetchedBalance - tick.prev >= BALANCE_DIFF_THRESHOLD

\* A reply that is a failure of the external call.
IsFailure(resp) == resp.net = "exception" \/ resp.status # 200
                     \/ resp.body \notin {"result_ok", "result_empty"}

\* C1: on every tick in which the balance is fetched and exceeds the
\* recorded nonzero balance by at least BALANCE_DIFF_THRESHOLD, a Telegram
\* notification is posted on that tick, whatever get_tx's outcome.
C1_NotifyOnEveryProfitTick == ProfitTick => tick.tgCalls = 1

\* C3: no failure of an external call stops the polling loop: the failure is
\* logged, get_current_balance yields "0", get_tx yields None, and the loop
\* goes on.
C3_FailuresNeverStopLoop ==
    /\ mpc # "crashed"
    /\ (tick.kind = "tick" /\ IsFailure(tick.balResp))
         => (tick.balLogged /\ tick.balRet = ZeroStr)
    /\ (tick.txQueried /\ IsFailure(tick.txResp))
         => (tick.txLogged /\ tick.txRet = None)
    /\ (tick.tgCalls > 0 /\ IsFailure(tick.tgResp)) => tick.tgLogged

\* C5: a notification is sent only on a tick where the recorded balance is
\* nonzero and the fetched balance exceeds it by at least the threshold, at
\* most once per tick; a first nonzero balance fetched while the recorded
\* balance is 0 only becomes the baseline.
C5_NotifyOnlyOnProfit ==
    /\ tick.tgCalls <= 1
    /\ tick.tgCalls = 1 => ProfitTick
    /\ (Fetched /\ tick.prev = 0 /\ FetchedBalance # 0)
         => /\ tick.tgCalls = 0
            /\ ~tick.txQueried
            /\ profit_address_balance = FetchedBalance

C5_Witness ==
    /\ tick.tgCalls = 1
    /\ ProfitTick
    /\ profit_address_balance = FetchedBalance

\* C6: when get_current_balance returns "0", monitor_profit leaves
\* profit_address_balance unchanged, issues no transaction query and sends
\* no notification.
C6_ZeroBalanceSkipsTick ==
    (tick.kind = "tick" /\ ~tick.raised /\ tick.balRet = ZeroStr)
      => /\ profit_address_balance = tick.prev
         /\ ~tick.txQueried
         /\ tick.tgCalls = 0

C6_Witness ==
    /\ tick.kind = "tick"
    /\ tick.balRet = ZeroStr
    /\ tick.prev # 0
    /\ profit_address_balance = tick.prev
    /\ mpc = "loop"

(***************************************************************************)
(* Properties of the restart loop.                                         *)
(***************************************************************************)
\* restart_bot has been called and the last call returned to main.
Returned == calls > 0 /\ last.escaped = "none"

\* The last call created the session and sent the start command to it.
Relaunched ==
    /\ session.exists
    /\ session.createdBy = calls
    /\ session.started
    /\ Len(last.cmds) = 3
    /\ last.cmds[3].name = "send-keys"

\* C2 as stated: whenever restart_bot returns, a session has been newly
\* created in that call and the start command has been sent to it.
C2_ReturnImpliesRelaunched == Returned => Relaunched

\* C2 amended: whenever restart_bot returns without having logged an error,
\* a session has been newly created in that call and the start command has
\* been sent to it.
C2_CleanReturnImpliesRelaunched ==
    (Returned /\ ~last.errorLogged) => Relaunched

C2_Witness == Returned /\ ~last.errorLogged /\ Relaunched /\ calls > 1

CommandOrder == <<"kill-session", "new-session", "send-keys">>

\* C7: restart_bot issues kill-session, new-session, send-keys in this
\* order; a kill-session that exits non-zero does not prevent new-session;
\* send-keys is issued only after new-session succeeded in the same call,
\* so the start command only reaches a session created by that call.
C7_CommandOrder ==
    /\ Len(last.cmds) <= 3
    /\ \A i \in 1..Len(last.cmds) : last.cmds[i].name = CommandOrder[i]
    /\ (Len(last.cmds) >= 1 /\ last.cmds[1].exc = "none"
          /\ last.cmds[1].rc # 0) => Len(last.cmds) >= 2
    /\ Len(last.cmds) = 3
         => (last.cmds[2].exc = "none" /\ last.cmds[2].rc = 0)
    /\ (Len(last.cmds) = 3 /\ last.cmds[3].rc = 0)
         => (session.exists /\ session.createdBy = calls)

C7_Witness ==
    /\ Len(last.cmds) = 3
    /\ last.cmds[1].rc # 0
    /\ last.cmds[3].rc = 0
    /\ session.createdBy = calls
    /\ calls > 1

\* C8: after a restart_bot call in which new-session or send-keys failed,
\* main sleeps the full interval; the 60-second sleep is taken only when an
\* exception left restart_bot.
C8_SleepIntervals ==
    rpc = "sleep"
      => /\ last.exc = "CalledProcessError" => sleepFor = interval
         /\ sleepFor = retry_delay => last.escaped # "none"

C8_Witness ==
    /\ rpc = "sleep"
    /\ last.exc = "CalledProcessError"
    /\ sleepFor = interval

\* C4: a failing tmux command never ends the loop of main: the script ends
\* only on the user's interrupt, and after a call with a failed command
\* another call of restart_bot follows unless the user interrupts.
C4_LoopSurvivesFailures ==
    /\ [](rpc = "exited" => interrupted)
    /\ \A n \in 1..(MaxCalls - 1) :
         (calls = n /\ TmuxFailed(last.cmds))
           ~> (calls = n + 1 \/ interrupted)

C4_Witness == calls > 1 /\ last.prevFailed /\ ~interrupted
====
